---------------------------- MODULE Spec2Model ----------------------------
(***************************************************************************)
(* Model of src/src/utils/excel.ts: the spreadsheet-to-time-series parser  *)
(* of mocap_app.                                                           *)
(*                                                                         *)
(* Data representation                                                     *)
(*   string   : a TLA+ string, read character by character with SubSeq.    *)
(*   number   : a pair <<n, d>>; d > 0 is the rational n/d in lowest terms, *)
(*              <<0,0>> is NaN, <<1,0>> and <<-1,0>> are +/-Infinity.       *)
(*              JavaScript doubles are modelled as exact rationals.        *)
(*   cell     : <<kind, number, string>> with kind "null", "undef", "num"  *)
(*              or "str" (the cell grid holds string | number | null).     *)
(*   grid     : a sequence of rows, a row a sequence of cells.             *)
(* Strings in exponent, hexadecimal or Infinity notation are outside the   *)
(* cell domain, so Number() is modelled on signed decimal literals.        *)
(***************************************************************************)
EXTENDS Integers, Sequences, FiniteSets, TLC

(***************************************************************************)
(* Numbers                                                                 *)
(***************************************************************************)
NaN == <<0, 0>>
PosInf == <<1, 0>>

Abs(i) == IF i < 0 THEN -i ELSE i

RECURSIVE Gcd(_, _)
Gcd(a, b) == IF b = 0 THEN a ELSE Gcd(b, a % b)

\* the rational n/d (d # 0) in lowest terms with a positive denominator
Rat(n, d) ==
  LET g == Gcd(Abs(n), Abs(d))
      s == IF d < 0 THEN -1 ELSE 1
  IN <<(s * n) \div g, (s * d) \div g>>

Int2Num(i) == <<i, 1>>

\* Number.isFinite
IsFinite(v) == v[2] > 0

\* a / b for a finite non-zero divisor b (the only divisors the code uses)
NumDiv(a, b) == IF IsFinite(a) THEN Rat(a[1] * b[2], a[2] * b[1]) ELSE a

NumSub(a, b) ==
  IF IsFinite(a) /\ IsFinite(b)
  THEN Rat(a[1] * b[2] - b[1] * a[2], a[2] * b[2])
  ELSE NaN

NumAdd(a, b) ==
  IF IsFinite(a) /\ IsFinite(b)
  THEN Rat(a[1] * b[2] + b[1] * a[2], a[2] * b[2])
  ELSE NaN

\* Math.abs
NumAbs(a) == <<Abs(a[1]), a[2]>>

\* a > b; false when either side is NaN
NumGt(a, b) == IsFinite(a) /\ IsFinite(b) /\ a[1] * b[2] > b[1] * a[2]

(***************************************************************************)
(* Strings                                                                 *)
(***************************************************************************)
Char(s, i) == SubSeq(s, i, i)

\* the characters \s matches, within the cell alphabet
WsChars == {" ", "\t", "\n"}

IsWs(c) == c \in WsChars

Digits == <<"0", "1", "2", "3", "4", "5", "6", "7", "8", "9">>

IsDigit(c) == c \in {Digits[i] : i \in 1..10}

DigitVal(c) == (CHOOSE i \in 1..10 : Digits[i] = c) - 1

Uppers == <<"A", "B", "C", "D", "E", "F", "G", "H", "I", "J", "K", "L", "M",
            "N", "O", "P", "Q", "R", "S", "T", "U", "V", "W", "X", "Y", "Z">>
Lowers == <<"a", "b", "c", "d", "e", "f", "g", "h", "i", "j", "k", "l", "m",
            "n", "o", "p", "q", "r", "s", "t", "u", "v", "w", "x", "y", "z">>

LowerMap == [c \in {Uppers[i] : i \in 1..26} |->
               Lowers[CHOOSE i \in 1..26 : Uppers[i] = c]]

LowerChar(c) == IF c \in DOMAIN LowerMap THEN LowerMap[c] ELSE c

\* the least position of s holding a character of the set S, 0 if none
FirstOf(s, S) ==
  LET hits == {i \in 1..Len(s) : Char(s, i) \in S}
  IN IF hits = {} THEN 0 ELSE CHOOSE i \in hits : \A j \in hits : i <= j

\* case folding of the /i flag: every upper-case letter replaced, left to right
RECURSIVE Lower(_)
Lower(s) ==
  LET i == FirstOf(s, DOMAIN LowerMap)
  IN IF i = 0 THEN s
     ELSE SubSeq(s, 1, i - 1) \o LowerMap[Char(s, i)]
          \o Lower(SubSeq(s, i + 1, Len(s)))

RECURSIVE TrimLeft(_)
TrimLeft(s) ==
  IF s # "" /\ IsWs(Char(s, 1)) THEN TrimLeft(Tail(s)) ELSE s

RECURSIVE TrimRight(_)
TrimRight(s) ==
  IF s # "" /\ IsWs(Char(s, Len(s)))
  THEN TrimRight(SubSeq(s, 1, Len(s) - 1))
  ELSE s

\* String.prototype.trim
Trim(s) == TrimRight(TrimLeft(s))

\* s.replace(/\s+/g, "")
RECURSIVE StripWs(_)
StripWs(s) ==
  LET i == FirstOf(s, WsChars)
  IN IF i = 0 THEN s
     ELSE SubSeq(s, 1, i - 1) \o StripWs(SubSeq(s, i + 1, Len(s)))

\* s.replace(/,/g, "")
RECURSIVE StripCommas(_)
StripCommas(s) ==
  LET i == FirstOf(s, {","})
  IN IF i = 0 THEN s
     ELSE SubSeq(s, 1, i - 1) \o StripCommas(SubSeq(s, i + 1, Len(s)))

\* the least position at or after `from` where sub occurs in s, 0 if none
FindFrom(s, sub, from) ==
  LET hits == {i \in from..(Len(s) - Len(sub) + 1) :
                 SubSeq(s, i, i + Len(sub) - 1) = sub}
  IN IF hits = {} THEN 0 ELSE CHOOSE i \in hits : \A j \in hits : i <= j

Contains(s, sub) == FindFrom(s, sub, 1) > 0

RECURSIVE NatToStr(_)
NatToStr(n) ==
  IF n < 10 THEN Digits[n + 1]
  ELSE NatToStr(n \div 10) \o Digits[(n % 10) + 1]

\* String(v) of an integer-valued number
IntToStr(i) == IF i < 0 THEN "-" \o NatToStr(-i) ELSE NatToStr(i)

AllDigits(s) == \A i \in 1..Len(s) : IsDigit(Char(s, i))

RECURSIVE DigitsVal(_, _)
DigitsVal(s, acc) ==
  IF s = "" THEN acc ELSE DigitsVal(Tail(s), 10 * acc + DigitVal(Char(s, 1)))

RECURSIVE Pow10(_)
Pow10(k) == IF k = 0 THEN 1 ELSE 10 * Pow10(k - 1)

\* Number(s) of a string: surrounding whitespace ignored, "" is 0, a signed
\* decimal literal is its value, anything else is NaN
StrToNumber(s) ==
  LET t == Trim(s)
      neg == t # "" /\ Char(t, 1) = "-"
      signed == t # "" /\ Char(t, 1) \in {"-", "+"}
      u == IF signed THEN Tail(t) ELSE t
      dot == FindFrom(u, ".", 1)
      ip == IF dot = 0 THEN u ELSE SubSeq(u, 1, dot - 1)
      fp == IF dot = 0 THEN "" ELSE SubSeq(u, dot + 1, Len(u))
      mag == DigitsVal(ip \o fp, 0)
  IN IF t = "" THEN Int2Num(0)
     ELSE IF AllDigits(ip) /\ AllDigits(fp) /\ Len(ip) + Len(fp) > 0
     THEN Rat(IF neg THEN -mag ELSE mag, Pow10(Len(fp)))
     ELSE NaN

(***************************************************************************)
(* Cells                                                                   *)
(***************************************************************************)
Null == <<"null", NaN, "">>
Undef == <<"undef", NaN, "">>
NumC(i) == <<"num", Int2Num(i), "">>
StrC(s) == <<"str", NaN, s>>

IsStr(c) == c[1] = "str"
IsNum(c) == c[1] = "num"
\* v == null
IsNullish(c) == c[1] \in {"null", "undef"}

\* row[i], undefined past the end of the row
At(row, i) == IF i \in 1..Len(row) THEN row[i] ELSE Undef

\* String(v)
ToStr(c) ==
  CASE IsStr(c) -> c[3]
    [] IsNum(c) -> IntToStr(c[2][1])
    [] c[1] = "null" -> "null"
    [] OTHER -> "undefined"

\* Number(x)
ToNumberJS(c) ==
  CASE IsNum(c) -> c[2]
    [] IsStr(c) -> StrToNumber(c[3])
    [] c[1] = "null" -> Int2Num(0)
    [] OTHER -> NaN

\* toNumber, and the identical local `num` of normalizeSheet
toNumber(c) ==
  IF IsNum(c) THEN c[2]
  ELSE IF IsNullish(c) THEN NaN
  ELSE LET n == StrToNumber(StripCommas(Trim(ToStr(c))))
       IN IF IsFinite(n) THEN n ELSE NaN

(***************************************************************************)
(* Static tables                                                           *)
(***************************************************************************)
\* NEEDED_MAP: per role, the ordered <<label, key>> whitelist
NEEDED_MAP(role) ==
  IF role = "pitcher" THEN <<
    <<"Pelvis Twist Velocity", "/Calc/Pelvis/Twist/Velocity_x">>,
    <<"Shoulder Twist Velocity", "/Calc/Shoulder/Twist/Velocity_x">>,
    <<"Elbow Flexion/Extension Velocity, dominant", "/Calc/Elbow/Dominant/FlexionExtension/Velocity_x">>,
    <<"Shoulder Rotation Velocity, dominant", "/Calc/Shoulder/Dominant/Rotation/Velocity_x">>,
    <<"Shoulder Horizontal, dominant", "/Calc/Shoulder/Dominant/Horizontal_x">>,
    <<"Shoulder Elevation, dominant", "/Calc/Shoulder/Dominant/Elevation_x">>,
    <<"Shoulder Rotation, dominant", "/Calc/Shoulder/Dominant/Rotation_x">>,
    <<"Elbow Flexion/Extension, dominant", "/Calc/Elbow/Dominant/FlexionExtension_x">>,
    <<"Trunk Tilt left/right", "/Calc/Trunk/Tilt/LeftRight_x">>,
    <<"Shoulder Twist", "/Calc/Shoulder/Twist_x">>,
    <<"Pelvis Twist", "/Calc/Pelvis/Twist_x">>,
    <<"Trunk Separation", "/Calc/Trunk/Separation_x">>,
    <<"Knee Flexion/Extension, lead", "/Calc/Knee/Lead/FlexionExtension_x">>,
    <<"Center of Gravity Velocity, Y", "/Calc/CenterOfGravity/VelocityY_x">> >>
  ELSE <<
    <<"Shoulder Twist Velocity", "/Calc/Shoulder/Twist/Velocity_x">>,
    <<"Pelvis Twist Velocity", "/Calc/Pelvis/Twist/Velocity_x">>,
    <<"Elbow Dominant Flexion/Extension Velocity", "/Calc/Elbow/Dominant/FlexionExtension/Velocity_x">>,
    <<"Trunk Separation", "/Calc/Trunk/Separation_x">>,
    <<"Shoulder Other Horizontal", "/Calc/Shoulder/Other/Horizontal_x">>,
    <<"Trunk Tilt Left/Right", "/Calc/Trunk/Tilt/LeftRight_x">>,
    <<"Hip Plant Internal/External", "/Calc/Hip/Plant/InternalExternal_x">>,
    <<"Shoulder Twist", "/Calc/Shoulder/Twist_x">>,
    <<"Hip Lead Internal/External", "/Calc/Hip/Lead/InternalExternal_x">>,
    <<"Trunk Tilt Forwards/Backwards", "/Calc/Trunk/Tilt/ForwardsBackwards_x">>,
    <<"Shoulder Dominant Horizontal", "/Calc/Shoulder/Dominant/Horizontal_x">>,
    <<"Shoulder Dominant Rotation", "/Calc/Shoulder/Dominant/Rotation_x">>,
    <<"Pelvis Tilt Left/Right", "/Calc/Pelvis/Tilt/LeftRight_x">>,
    <<"Center of Gravity Velocity Z", "/Calc/CenterOfGravity/VelocityZ_x">> >>

\* HEADER_ALIASES: the entries <<map key, map value>> in insertion order
HEADER_ALIASES == <<
  <<"/Calc/Elbow/Dominant/Flexion/Extension/Velocity_x", "/Calc/Elbow/Dominant/FlexionExtension/Velocity_x">>,
  <<"/Calc/Elbow/Dominant/Flexion/Extenstion/Velocity_x", "/Calc/Elbow/Dominant/FlexionExtension/Velocity_x">>,
  <<"/Calc/Elbow/Dominant/Flexion/Extension_x", "/Calc/Elbow/Dominant/FlexionExtension_x">>,
  <<"/Calc/Wrist/Dominant/Flexion/Extension/Velocity_x", "/Calc/Wrist/Dominant/FlexionExtension/Velocity_x">>,
  <<"/Calc/Knee/Lead/Flexion/Extension_x", "/Calc/Knee/Lead/FlexionExtension_x">> >>

(***************************************************************************)
(* JavaScript Map<string, number>: a sequence of <<key, value>> entries in  *)
(* insertion order; set() on a present key replaces its value in place.    *)
(***************************************************************************)
MapHas(m, k) == \E j \in 1..Len(m) : m[j][1] = k

MapGet(m, k) == m[CHOOSE j \in 1..Len(m) : m[j][1] = k][2]

MapSet(m, k, v) ==
  IF MapHas(m, k)
  THEN [j \in 1..Len(m) |-> IF m[j][1] = k THEN <<k, v>> ELSE m[j]]
  ELSE Append(m, <<k, v>>)

\* getColIndexWithAliases, with the alias table as a parameter
ResolveWith(aliases, colIndex, key) ==
  LET alias == IF MapHas(aliases, key) THEN MapGet(aliases, key) ELSE ""
      bare == StripWs(key)
      loose == {j \in 1..Len(colIndex) : StripWs(colIndex[j][1]) = bare}
  IN IF MapHas(colIndex, key) THEN MapGet(colIndex, key)
     ELSE IF alias # "" /\ MapHas(colIndex, alias) THEN MapGet(colIndex, alias)
     ELSE IF loose # {}
     THEN colIndex[CHOOSE j \in loose : \A k \in loose : j <= k][2]
     ELSE -1

\* the resolver with the alias tier left out
ResolveWithoutAliases(colIndex, key) == ResolveWith(<<>>, colIndex, key)

getColIndexWithAliases(colIndex, key) == ResolveWith(HEADER_ALIASES, colIndex, key)

\* header.forEach((h, i) => { if (typeof h === "string") colIndex.set(h.trim(), i) })
RECURSIVE BuildColIndex(_, _, _)
BuildColIndex(header, i, m) ==
  IF i > Len(header) THEN m
  ELSE BuildColIndex(header, i + 1,
         IF IsStr(header[i]) THEN MapSet(m, Trim(header[i][3]), i - 1) ELSE m)

\* row.map((v) => (typeof v === "string" ? v.trim() : v))
TrimCells(row) ==
  [j \in 1..Len(row) |-> IF IsStr(row[j]) THEN StrC(Trim(row[j][3])) ELSE row[j]]

\* the scan limit of both header detectors
ScanLimit == 20

Min(a, b) == IF a < b THEN a ELSE b

\* the test without the /i flag, against the spelling of the lookup key
RowHasTimeCellCaseSensitive(row) ==
  \E j \in 1..Len(row) : IsStr(row[j]) /\ Trim(ToStr(row[j])) = "Time"

\* row.some((c) => typeof c === "string" && /^time$/i.test(String(c).trim()))
RowHasTimeCell(row) ==
  \E j \in 1..Len(row) : IsStr(row[j]) /\ Lower(Trim(ToStr(row[j]))) = "time"

\* findHeaderRowWithTime; headerRowIndex is 0-based as in the code
findHeaderRowWithTime(table) ==
  LET scanUpto == Min(Len(table), ScanLimit)
      hits == {i \in 0..(scanUpto - 1) : RowHasTimeCell(table[i + 1])}
      first == CHOOSE i \in hits : \A j \in hits : i <= j
  IN IF hits # {}
     THEN [headerRowIndex |-> first, header |-> TrimCells(table[first + 1])]
     ELSE [headerRowIndex |-> 0,
           header |-> IF Len(table) > 0 THEN TrimCells(table[1]) ELSE <<>>]

(***************************************************************************)
(* Needed-metrics path: results and buildRole                              *)
(***************************************************************************)
NoMetrics == [time |-> <<>>, series |-> <<>>]

Pending == [ok |-> FALSE, why |-> "", warnings |-> <<>>,
            pitcher |-> NoMetrics, hitter |-> NoMetrics]

\* { ok: false, why, warnings }
Failure(why, warnings) ==
  [ok |-> FALSE, why |-> why, warnings |-> warnings,
   pitcher |-> NoMetrics, hitter |-> NoMetrics]

\* a parser without the try/catch: the Error reaches the caller
CatchRethrows(message) == [escapes |-> TRUE, result |-> Pending]

\* the catch blocks, for a thrown Error with the given message: nothing escapes,
\* { ok: false, why: String(err?.message ?? err), warnings: [] } is returned
CatchResult(message) == [escapes |-> FALSE, result |-> Failure(message, <<>>)]

\* wb.SheetNames.find(/baseball.*data/i) ?? .find(/baseball/i) ?? SheetNames[0];
\* "" stands for undefined (no sheet)
MatchesBaseballData(n) ==
  LET b == FindFrom(Lower(n), "baseball", 1)
  IN b > 0 /\ FindFrom(Lower(n), "data", b + 8) > 0

MatchesBaseball(n) == Contains(Lower(n), "baseball")

\* the least element of a non-empty set of integers
Least(S) == CHOOSE i \in S : \A j \in S : i <= j

SelectSheetName(names) ==
  LET data == {j \in 1..Len(names) : MatchesBaseballData(names[j])}
      ball == {j \in 1..Len(names) : MatchesBaseball(names[j])}
  IN IF data # {} THEN names[Least(data)]
     ELSE IF ball # {} THEN names[Least(ball)]
     ELSE IF Len(names) > 0 THEN names[1] ELSE ""

\* the rows the loop of buildRole processes: those after the header row that
\* pass `if (!row || !row.length) continue`
KeepRow(row) == Len(row) > 0

ProcessedRows(tbl, hri) == SelectSeq(SubSeq(tbl, hri + 2, Len(tbl)), KeepRow)

\* an unresolved column read as the first column instead of NaN
CellValueFirstColumn(row, idx) ==
  LET v == toNumber(At(row, IF idx >= 0 THEN idx + 1 ELSE 1))
  IN IF IsFinite(v) THEN v ELSE NaN

\* the value pushed for one row and one resolved column index
CellValue(row, idx) ==
  LET v == IF idx >= 0 THEN toNumber(At(row, idx + 1)) ELSE NaN
  IN IF IsFinite(v) THEN v ELSE NaN

\* `time` appended to in the pass of every role
PushesTimeAlways(role) == TRUE

\* `if (role === "pitcher")`: the roles whose pass appends to `time`
PushesTime(role) == role = "pitcher"

\* the warning without the key of the series
MissingWarningWithoutKey(key) == "Missing column in sheet"

MissingWarning(key) == "Missing column in sheet: " \o key

\* series.forEach((s) => { if (idx < 0) warnings.push(...) }); idx[j] is the
\* column getColIndexWithAliases gives for the j-th series
RECURSIVE MissingWarnings(_, _, _)
MissingWarnings(spec, idx, j) ==
  IF j > Len(spec) THEN <<>>
  ELSE (IF idx[j] < 0 THEN <<MissingWarning(spec[j][2])>> ELSE <<>>)
       \o MissingWarnings(spec, idx, j + 1)

\* buildRole(role): the series built, and `time` and `warnings` as it leaves them
buildRole(role, tbl, hri, ci, tIdx, tm, warn) ==
  LET spec == NEEDED_MAP(role)
      rows == ProcessedRows(tbl, hri)
      idx == [j \in 1..Len(spec) |-> getColIndexWithAliases(ci, spec[j][2])]
  IN [series |-> [j \in 1..Len(spec) |->
                    [label |-> spec[j][1], key |-> spec[j][2],
                     values |-> [r \in 1..Len(rows) |-> CellValue(rows[r], idx[j])]]],
      time |-> IF PushesTime(role)
               THEN tm \o [r \in 1..Len(rows) |-> CellValue(rows[r], tIdx)]
               ELSE tm,
      warnings |-> warn \o MissingWarnings(spec, idx, 1)]

TimeWarning == "Could not find 'Time' column; times will be NaN."

(***************************************************************************)
(* Generic path: detectHeaderAndExtract, toObjects, normalizeSheet         *)
(***************************************************************************)
\* row.filter((c) => typeof c === "string" && c.trim() !== "").length
NonEmptyCount(row) ==
  Cardinality({j \in 1..Len(row) : IsStr(row[j]) /\ Trim(row[j][3]) # ""})

\* /^(t|time|timestamp)$/i on a trimmed string cell
RowHasTime(row) ==
  \E j \in 1..Len(row) :
    IsStr(row[j]) /\ Lower(Trim(row[j][3])) \in {"t", "time", "timestamp"}

\* /frame/i on a trimmed string cell
RowHasFrame(row) ==
  \E j \in 1..Len(row) : IsStr(row[j]) /\ Contains(Lower(Trim(row[j][3])), "frame")

\* the score of one candidate row, lines 238-242
RowScore(row) ==
  LET nonEmpty == NonEmptyCount(row)
      score == nonEmpty + (IF RowHasTime(row) THEN 3 ELSE 0)
                        + (IF RowHasFrame(row) THEN 2 ELSE 0)
  IN IF nonEmpty <= 1 THEN score - 3 ELSE score

\* the value bestScore starts from, line 234
InitialBestScore == -1

\* the scan loop, lines 236-244: <<bestIdx, bestScore>> after rows i..scanUpto-1
\* (0-based) have been examined
RECURSIVE ScanRows(_, _, _, _)
ScanRows(tbl, i, scanUpto, best) ==
  IF i >= scanUpto THEN best
  ELSE ScanRows(tbl, i + 1, scanUpto,
         IF RowScore(tbl[i + 1]) > best[2] THEN <<i, RowScore(tbl[i + 1])>> ELSE best)

BestRow(tbl) == ScanRows(tbl, 0, Min(Len(tbl), ScanLimit), <<0, InitialBestScore>>)[1]

\* the canonical spelling of one raw header, lines 249-253
CanonHeader(h) ==
  LET t == Trim(h)
  IN IF Lower(t) \in {"frame", "frames"} THEN "Frame"
     ELSE IF Lower(t) = "timestamp" THEN "Timestamp"
     ELSE IF Lower(t) \in {"t", "time"} THEN "Time"
     ELSE t

\* dedupeHeaders: seen counts occurrences, as a Map of label -> count
RECURSIVE dedupeFrom(_, _, _)
dedupeFrom(hs, j, seen) ==
  IF j > Len(hs) THEN <<>>
  ELSE IF hs[j] = "" THEN <<"">> \o dedupeFrom(hs, j + 1, seen)
  ELSE LET count == (IF MapHas(seen, hs[j]) THEN MapGet(seen, hs[j]) ELSE 0) + 1
       IN <<IF count = 1 THEN hs[j] ELSE hs[j] \o " (" \o IntToStr(count) \o ")">>
          \o dedupeFrom(hs, j + 1, MapSet(seen, hs[j], count))

dedupeHeaders(hs) == dedupeFrom(hs, 1, <<>>)

\* detectHeaderAndExtract; bestIdx is kept beside the two results
detectHeaderAndExtract(tbl) ==
  LET bestIdx == BestRow(tbl)
      row == tbl[bestIdx + 1]
      rawHeaders == [j \in 1..Len(row) |->
                       IF IsNullish(row[j]) THEN "" ELSE ToStr(row[j])]
  IN [bestIdx |-> bestIdx,
      headers |-> dedupeHeaders([j \in 1..Len(row) |-> CanonHeader(rawHeaders[j])]),
      dataRows |-> SubSeq(tbl, bestIdx + 2, Len(tbl))]

\* headers[i] || `Col${i}`
ObjectKey(hs, j) == IF hs[j] # "" THEN hs[j] ELSE "Col" \o IntToStr(j - 1)

\* Object.keys of a row object: the distinct keys in order of first assignment
RECURSIVE ObjectKeys(_, _, _)
ObjectKeys(hs, j, acc) ==
  IF j > Len(hs) THEN acc
  ELSE ObjectKeys(hs, j + 1,
         IF ObjectKey(hs, j) \in {acc[k] : k \in 1..Len(acc)} THEN acc
         ELSE Append(acc, ObjectKey(hs, j)))

\* the column whose cell a key ends up holding: the last one assigned to it
ColumnOfKey(hs, k) ==
  CHOOSE j \in 1..Len(hs) :
    /\ ObjectKey(hs, j) = k
    /\ \A i \in 1..Len(hs) : ObjectKey(hs, i) = k => i <= j

\* toObjects: the key order of the objects and, per data row, key -> cell
toObjects(hs, rows) ==
  LET keys == ObjectKeys(hs, 1, <<>>)
  IN [keys |-> keys,
      rows |-> [r \in 1..Len(rows) |->
                 [k \in {keys[j] : j \in 1..Len(keys)} |->
                    At(rows[r], ColumnOfKey(hs, k))]]]

\* keys.find(test): "" stands for undefined
IsTimeKey(k) == Lower(k) \in {"t", "time"}
IsTimestampKey(k) == Contains(Lower(k), "timestamp")
IsMsKey(k) == Contains(Lower(k), "ms") \/ Contains(Lower(k), "millisecond")
IsFrameKey(k) ==
  \/ Lower(k) \in {"frame", "frames"}
  \/ Contains(Lower(k), "frameindex")
  \/ Contains(Lower(k), "frame index")

FindKey(keys, hits) == IF hits = {} THEN "" ELSE keys[Least(hits)]

\* line 275
TimeKeyOf(keys) ==
  LET exact == FindKey(keys, {j \in 1..Len(keys) : IsTimeKey(keys[j])})
  IN IF exact # "" THEN exact
     ELSE FindKey(keys, {j \in 1..Len(keys) : IsTimestampKey(keys[j])})

\* line 276
MsKeyOf(keys) == FindKey(keys, {j \in 1..Len(keys) : IsMsKey(keys[j])})

\* line 277
FrameKeyOf(keys) == FindKey(keys, {j \in 1..Len(keys) : IsFrameKey(keys[j])})

\* the first key containing "timestamp", lines 288-289 and 310-311
TimestampKeyOf(keys) == FindKey(keys, {j \in 1..Len(keys) : IsTimestampKey(keys[j])})

\* Date.parse on the date strings of the cell domain; NaN on any other string
DateParse(str) ==
  CASE str = "1970-01-01T00:00:01Z" -> Int2Num(1000)
    [] str = "1970-01-01T00:00:03Z" -> Int2Num(3000)
    [] OTHER -> NaN

\* typeof x === "number" ? x : Date.parse(x)
NumberOrDate(c) == IF IsNum(c) THEN c[2] ELSE DateParse(ToStr(c))

\* averageDelta: the finite Number(x) of the column, then the mean of the
\* absolute successive differences
RECURSIVE FiniteNumbers(_, _, _)
FiniteNumbers(rows, key, r) ==
  IF r > Len(rows) THEN <<>>
  ELSE (IF IsFinite(ToNumberJS(rows[r][key])) THEN <<ToNumberJS(rows[r][key])>> ELSE <<>>)
       \o FiniteNumbers(rows, key, r + 1)

RECURSIVE SumAbsDiff(_, _)
SumAbsDiff(vals, i) ==
  IF i > Len(vals) THEN Int2Num(0)
  ELSE NumAdd(NumAbs(NumSub(vals[i], vals[i - 1])), SumAbsDiff(vals, i + 1))

averageDelta(rows, key) ==
  LET vals == FiniteNumbers(rows, key, 1)
  IN IF Len(vals) < 2 THEN NaN
     ELSE NumDiv(SumAbsDiff(vals, 2), Int2Num(Len(vals) - 1))

\* fpsGuess && Number.isFinite(fpsGuess) ? fpsGuess : 120, with a fallback of 60
FpsOrSixty(fps) == IF IsFinite(fps) /\ fps[1] # 0 THEN fps ELSE Int2Num(60)

\* fpsGuess && Number.isFinite(fpsGuess) ? fpsGuess : 120
FpsOrDefault(fps) == IF IsFinite(fps) /\ fps[1] # 0 THEN fps ELSE Int2Num(120)

\* every parsed cell stored, NaN included
KeepsFieldAlways(n) == TRUE

\* `if (Number.isFinite(n)) row[k] = n`
KeepsField(n) == IsFinite(n)

\* ts0, lines 287-293
Ts0(raw, timeKey) ==
  LET k == TimestampKeyOf(raw.keys)
      withValue == {r \in 1..Len(raw.rows) : ~IsNullish(raw.rows[r][k])}
      p == IF withValue = {} THEN NaN
           ELSE NumberOrDate(raw.rows[Least(withValue)][k])
  IN IF timeKey = "" /\ k # "" /\ IsFinite(p) THEN p ELSE Int2Num(0)

\* the t of one row, lines 301-314
RowTime(raw, r, fps, timeKey, msKey, frameKey, ts0) ==
  IF timeKey # ""
  THEN LET n == toNumber(raw.rows[r][timeKey])
           looksMs == \/ msKey # ""
                      \/ /\ IsFinite(n)
                         /\ NumGt(n, Int2Num(50))
                         /\ NumGt(averageDelta(raw.rows, timeKey), Int2Num(10))
       IN IF looksMs THEN NumDiv(n, Int2Num(1000)) ELSE n
  ELSE IF frameKey # ""
  THEN LET f == toNumber(raw.rows[r][frameKey])
       IN IF IsFinite(f) THEN NumDiv(f, FpsOrDefault(fps)) ELSE NaN
  ELSE IF TimestampKeyOf(raw.keys) # ""
  THEN LET p == NumberOrDate(raw.rows[r][TimestampKeyOf(raw.keys)])
       IN IF IsFinite(p) THEN NumDiv(NumSub(p, ts0), Int2Num(1000)) ELSE NaN
  ELSE NaN

\* normalizeSheet: one Row (a function from key to number) per raw row
normalizeSheet(raw, fps) ==
  LET keys == raw.keys
      timeKey == TimeKeyOf(keys)
      msKey == MsKeyOf(keys)
      frameKey == FrameKeyOf(keys)
      ts0 == Ts0(raw, timeKey)
      copied == {keys[j] : j \in 1..Len(keys)} \ {timeKey, msKey, frameKey}
  IN [r \in 1..Len(raw.rows) |->
        LET kept == {k \in copied : KeepsField(toNumber(raw.rows[r][k]))}
        IN [k \in kept \cup {"t"} |->
              IF k \in kept THEN toNumber(raw.rows[r][k])
              ELSE RowTime(raw, r, fps, timeKey, msKey, frameKey, ts0)]]

\* every non-empty Row[] taken to hold a metric
HasMetricAlways(cleaned) == TRUE

\* cleaned.length && cleaned.some((r) => Object.keys(r).some((k) => k !== "t"))
HasMetric(cleaned) ==
  \E r \in 1..Len(cleaned) : \E k \in DOMAIN cleaned[r] : k # "t"

(***************************************************************************)
(* Workbooks: what read(buf) yields.  A buffer is [bad, sheets]: read throws *)
(* an Error with message `bad` when it is not "", else the workbook has the *)
(* sheets <<name, ws>> in SheetNames order.  A worksheet ws is              *)
(* <<kind, grid, message>>: "missing" (wb.Sheets[name] is undefined),       *)
(* "corrupt" (sheet_to_json throws an Error with the message) or "grid".    *)
(***************************************************************************)
MissingWs == <<"missing", <<>>, "">>
CorruptWs(m) == <<"corrupt", <<>>, m>>
GridWs(g) == <<"grid", g, "">>

BadBuf(m) == [bad |-> m, sheets |-> <<>>]
Workbook(sheets) == [bad |-> "", sheets |-> sheets]

SheetNames(b) == [j \in 1..Len(b.sheets) |-> b.sheets[j][1]]

\* wb.Sheets[name]
SheetOf(b, name) ==
  LET hits == {j \in 1..Len(b.sheets) : b.sheets[j][1] = name}
  IN IF hits = {} THEN MissingWs ELSE b.sheets[CHOOSE j \in hits : TRUE][2]

(***************************************************************************)
(* Inputs of the needed-metrics path                                       *)
(***************************************************************************)
MaxSheets == 2
MaxDataRows == 2
HeaderWidth == 2

SheetNameSet == {"Sheet1", "My Baseball", "Baseball Data"}

ErrorMessages == {"Unsupported file", "File is password-protected"}

\* sequences over S of length 0..n
SeqsUpTo(S, n) == UNION {[1..k -> S] : k \in 0..n}

IsInjective(f) == \A i, j \in DOMAIN f : f[i] = f[j] => i = j

KPelvis == "/Calc/Pelvis/Twist/Velocity_x"
KElbowTypo == "/Calc/Elbow/Dominant/Flexion/Extension/Velocity_x"
KElbowCanon == "/Calc/Elbow/Dominant/FlexionExtension/Velocity_x"

NeededHeaderCells ==
  {StrC("Time"), StrC(" time "), StrC(KPelvis), StrC(KElbowTypo),
   StrC(" /Calc/Pelvis/ Twist_x"), NumC(1)}

NeededHeaderRows == [1..HeaderWidth -> NeededHeaderCells]

DataRowSet ==
  {<<>>,
   <<NumC(3), StrC(" 1,5 "), Null>>,
   <<StrC("x"), NumC(7)>>}

TitleRows == {<<>>, <<<<StrC("Name")>>>>}

\* the data under the header rows of every shape: none, an empty row before
\* a row of cells, two rows of cells
DataBlocks ==
  {<<>>,
   <<<<>>, <<NumC(3), StrC(" 1,5 "), Null>>>>,
   <<<<NumC(3), StrC(" 1,5 "), Null>>, <<StrC("x"), NumC(7)>>>>}

\* the header rows under which the data rows vary
PlainHeaderRows ==
  {<<StrC("Time"), StrC(KPelvis)>>, <<NumC(1), StrC(KPelvis)>>}

\* k rows of one number each, then a row with the label and one data row
TimeRowAfter(k, label) ==
  [j \in 1..k |-> <<NumC(1)>>]
    \o <<<<StrC(label), StrC(KPelvis)>>, <<NumC(40), NumC(15)>>>>

\* the row with the time label is the last row examined, or the first one
\* that is not; a lone TIME cell above a row of three labels
LateHeaderGrids ==
  {TimeRowAfter(ScanLimit - 1, "Time"), TimeRowAfter(ScanLimit, "Time"),
   TimeRowAfter(1, "TIME"),
   <<<<StrC("TIME")>>, <<StrC("a"), StrC("b"), StrC("c")>>, <<NumC(1), NumC(2)>>>>}

NeededGrids ==
  {t \o <<h>> \o d : t \in TitleRows, h \in NeededHeaderRows, d \in DataBlocks}
    \cup LateHeaderGrids
    \cup {<<h>> \o d : h \in PlainHeaderRows, d \in SeqsUpTo(DataRowSet, MaxDataRows)}
    \cup SeqsUpTo(DataRowSet, 1)

\* worksheets of the workbooks with several sheets
FewWs ==
  {MissingWs, GridWs(<<>>),
   GridWs(<<<<StrC("Time"), StrC(KPelvis)>>, <<NumC(0), NumC(15)>>>>)}

ManySheets ==
  {sh \in SeqsUpTo(SheetNameSet \X FewWs, MaxSheets) :
     Len(sh) >= 2 /\ IsInjective([j \in 1..Len(sh) |-> sh[j][1]])}

NeededBufs ==
  {BadBuf(m) : m \in ErrorMessages}
    \cup {Workbook(<<>>)}
    \cup {Workbook(<<<<"Sheet1", ws>>>>) :
            ws \in {MissingWs} \cup {CorruptWs(m) : m \in ErrorMessages}
                     \cup {GridWs(g) : g \in NeededGrids}}
    \cup {Workbook(sh) : sh \in ManySheets}

(***************************************************************************)
(* Inputs of the column resolver                                           *)
(***************************************************************************)
ResolveWidth == 3

KKneeTypo == "/Calc/Knee/Lead/Flexion/Extension_x"
KKneeCanon == "/Calc/Knee/Lead/FlexionExtension_x"

ResolveCells ==
  {StrC("A B"), StrC(" A B"), StrC("AB"), StrC("A  B"),
   StrC(KKneeCanon), StrC("/Calc/Knee/Lead/Flexion/ Extension_x"), NumC(1)}

ResolveRows == SeqsUpTo(ResolveCells, ResolveWidth) \ {<<>>}

ResolveKeys == {"AB", "A B", KKneeTypo, KKneeCanon, "Time"}

(***************************************************************************)
(* Inputs of the generic path                                              *)
(***************************************************************************)
MaxDetectRows == 3

DetectRows ==
  {<<>>,
   <<NumC(1), NumC(2)>>,
   <<StrC("Name")>>,
   <<StrC(" "), StrC("x")>>,
   <<StrC(" t ")>>,
   <<StrC("a"), StrC("b")>>,
   <<StrC("Frame"), StrC("v")>>,
   <<StrC("Time"), StrC("v")>>}

DetectGrids == SeqsUpTo(DetectRows, MaxDetectRows) \ {<<>>}

\* k rows of one number each, then a header row and one data row
Padded(k) ==
  [j \in 1..k |-> <<NumC(1)>>]
    \o <<<<StrC("Time"), StrC("v")>>, <<NumC(40), NumC(5)>>>>

\* the header row is the last row examined, or the first one that is not
PaddedGrids == {Padded(ScanLimit - 1), Padded(ScanLimit)}

NormHeaderRows ==
  {<<StrC("Time"), StrC("v")>>,
   <<StrC(" t "), StrC("Arms_x")>>,
   <<StrC("v"), StrC("Time")>>,
   <<StrC("Time"), StrC("Time")>>,
   <<StrC("Timestamp"), StrC("v")>>,
   <<StrC("Event Timestamp"), StrC("v")>>,
   <<StrC("Timestamp"), StrC("Frames")>>,
   <<StrC("Frame"), StrC("v")>>,
   <<StrC("Frame Index"), StrC("v")>>,
   <<StrC("v"), StrC("w")>>,
   <<Null, StrC("v")>>}

DedupeWidth == 3

DedupeCells == {StrC("v"), StrC("v (2)"), StrC(" t "), StrC("Time")}

\* header rows with repeated labels over one row of numbers
DedupeGrids ==
  {<<h, <<NumC(40), NumC(5), NumC(7)>>>> : h \in [1..DedupeWidth -> DedupeCells]}

TimeCells == {Null, NumC(40), NumC(100), StrC("1,000")}

ValueCells == {NumC(5), Null, StrC("x")}

\* data rows whose first cell varies
TimeDataRows == {<<a, NumC(5)>> : a \in TimeCells}

\* data rows whose second cell varies
ValueDataRows == {<<NumC(40), b>> : b \in ValueCells}

NormGrids ==
  {<<h>> \o d : h \in NormHeaderRows,
                d \in SeqsUpTo(TimeDataRows, MaxDataRows) \ {<<>>}}
    \cup {<<<<StrC("Time"), StrC("v")>>>> \o d :
            d \in SeqsUpTo(ValueDataRows, MaxDataRows) \ {<<>>}}

\* a column of numbers under a header label, beside a column v of fives
ColumnGrid(label, column) ==
  <<<<StrC(label), StrC("v")>>>>
    \o [j \in 1..Len(column) |-> <<column[j], NumC(5)>>]

ExampleTimeGrid == ColumnGrid("Time", <<NumC(0), NumC(120), NumC(240), NumC(360)>>)

ExampleFrameGrid == ColumnGrid("Frame", <<NumC(0), NumC(1), NumC(2), NumC(3)>>)

ExampleDateGrid ==
  ColumnGrid("Timestamp", <<StrC("1970-01-01T00:00:01Z"), StrC("1970-01-01T00:00:03Z")>>)

FixtureGrids == {ExampleTimeGrid, ExampleFrameGrid, ExampleDateGrid}

FrameGrids ==
  {ExampleFrameGrid}
    \cup {<<<<StrC("Frame"), StrC("v")>>>> \o d :
            d \in SeqsUpTo(TimeDataRows, MaxDataRows) \ {<<>>}}

\* the default fpsGuess of the public functions
DefaultFps == Int2Num(120)

FpsSet == {DefaultFps, Int2Num(60), Int2Num(0), NaN, PosInf}

OneSheet(g) == Workbook(<<<<"Sheet1", GridWs(g)>>>>)

\* worksheets of the generic workbooks with several sheets
GenericFewWs ==
  {MissingWs, CorruptWs("File is password-protected"), GridWs(<<>>),
   GridWs(<<<<StrC("Time")>>, <<NumC(0)>>>>),
   GridWs(<<<<StrC("Time"), StrC("v")>>, <<NumC(0), NumC(5)>>>>)}

GenericManySheets ==
  {sh \in SeqsUpTo(SheetNameSet \X GenericFewWs, MaxSheets) :
     Len(sh) >= 2 /\ IsInjective([j \in 1..Len(sh) |-> sh[j][1]])}

\* <<buffer, fpsGuess>> pairs
GenericInputs ==
  {<<OneSheet(g), DefaultFps>> :
      g \in DetectGrids \cup PaddedGrids \cup DedupeGrids \cup NormGrids
              \cup FixtureGrids}
    \cup {<<OneSheet(g), f>> : g \in FrameGrids, f \in FpsSet}
    \cup {<<b, DefaultFps>> :
            b \in {BadBuf(m) : m \in ErrorMessages} \cup {Workbook(<<>>)}
                    \cup {Workbook(sh) : sh \in GenericManySheets}}

VARIABLES
  pc,             \* position in the call
  buf,            \* the buffer being parsed
  fpsGuess,       \* the fpsGuess argument of the generic path
  sheetName,      \* the selected sheet name ("" for undefined)
  table,          \* the cell grid of the sheet in hand
  headerRowIndex, \* 0-based index of the header row
  header,         \* the header row, strings trimmed
  colIndex,       \* Map<string, number> of trimmed label -> column
  timeIdx,        \* column of "Time", -1 if unresolved
  warnings,       \* the warnings array
  time,           \* the one `time` array both roles' NeededMetrics refer to
  pitcher,        \* series built by buildRole("pitcher")
  hitter,         \* series built by buildRole("hitter")
  result,         \* the NeededParseResult returned
  err,            \* message of the Error thrown during the call, "" if none
  escaped,        \* an exception left the public function
  rKey,           \* the key handed to getColIndexWithAliases
  rIdx,           \* the index getColIndexWithAliases returned
  sheetIdx,       \* 1-based position of the loop over wb.SheetNames
  bestIdx,        \* 0-based row detectHeaderAndExtract picked in `table`
  headers,        \* the header labels detectHeaderAndExtract returned
  dataRows,       \* the rows after the header row
  cleaned,        \* the Row[] normalizeSheet returned for the sheet in hand
  out             \* RowsBySheet: <<sheet name, Row[]>> in insertion order

inVars == <<buf, fpsGuess>>

hdVars == <<headerRowIndex, header, colIndex, timeIdx>>

nmVars == <<sheetName, table, hdVars, warnings, time, pitcher, hitter>>

exVars == <<result, err, escaped>>

rsVars == <<rKey, rIdx>>

shVars == <<bestIdx, headers, dataRows, cleaned>>

gnVars == <<sheetIdx, shVars, out>>

vars == <<pc, inVars, nmVars, exVars, rsVars, gnVars>>

NoBuf == Workbook(<<>>)

NeededIdle ==
  /\ sheetName = ""
  /\ table = <<>>
  /\ headerRowIndex = 0
  /\ header = <<>>
  /\ colIndex = <<>>
  /\ timeIdx = -1
  /\ warnings = <<>>
  /\ time = <<>>
  /\ pitcher = <<>>
  /\ hitter = <<>>
  /\ result = Pending
  /\ err = ""
  /\ escaped = FALSE

ResolveIdle ==
  /\ rKey = ""
  /\ rIdx = -1

GenericIdle ==
  /\ sheetIdx = 1
  /\ bestIdx = 0
  /\ headers = <<>>
  /\ dataRows = <<>>
  /\ cleaned = <<>>
  /\ out = <<>>

NeededInit ==
  /\ pc = "start"
  /\ buf = NoBuf
  /\ fpsGuess = NaN
  /\ NeededIdle
  /\ ResolveIdle
  /\ GenericIdle

Return(r) ==
  /\ result' = r
  /\ pc' = "done"
  /\ UNCHANGED <<err, escaped>>

\* an Error with message m thrown inside a try block
Throw(m) ==
  \E c \in {CatchResult(m)} :
    /\ result' = c.result
    /\ escaped' = c.escapes
    /\ err' = m
    /\ pc' = "done"

\* parseExcelToNeededMetrics, lines 141-147: `await file.arrayBuffer()` rejects
\* into the wrapper's catch, or resolves to the buffer handed to
\* parseWorkbookToNeededMetrics
parseExcelToNeededMetrics ==
  /\ pc = "start"
  /\ \/ \E m \in ErrorMessages : Throw(m) /\ UNCHANGED buf
     \/ \E b \in NeededBufs :
          /\ buf' = b
          /\ pc' = "read"
          /\ UNCHANGED exVars
  /\ UNCHANGED <<fpsGuess, nmVars, rsVars, gnVars>>

\* parseWorkbookToNeededMetrics, lines 153-163: read(buf) and sheet selection
ReadWorkbook ==
  /\ pc = "read"
  /\ IF buf.bad # ""
     THEN Throw(buf.bad) /\ UNCHANGED sheetName
     ELSE \E sel \in {SelectSheetName(SheetNames(buf))} :
            /\ sheetName' = sel
            /\ IF sel = ""
               THEN Return(Failure("No sheets found in workbook.", <<>>))
               ELSE IF SheetOf(buf, sel)[1] = "missing"
               THEN Return(Failure("Sheet '" \o sel \o "' is empty or unreadable.", <<>>))
               ELSE pc' = "sheet" /\ UNCHANGED exVars
  /\ UNCHANGED <<inVars, rsVars, gnVars, table, hdVars, warnings, time, pitcher, hitter>>

\* lines 165-179: sheet_to_json, the empty-sheet check, header row, colIndex
\* and the Time column
SheetToJson ==
  /\ pc = "sheet"
  /\ \E ws \in {SheetOf(buf, sheetName)} :
       IF ws[1] = "corrupt"
       THEN Throw(ws[3]) /\ UNCHANGED <<table, hdVars, warnings>>
       ELSE IF Len(ws[2]) = 0
       THEN /\ Return(Failure("Sheet '" \o sheetName \o "' has no data.", <<>>))
            /\ UNCHANGED <<table, hdVars, warnings>>
       ELSE \E found \in {findHeaderRowWithTime(ws[2])} :
            \E ci \in {BuildColIndex(found.header, 1, <<>>)} :
            \E tIdx \in {getColIndexWithAliases(ci, "Time")} :
              /\ table' = ws[2]
              /\ headerRowIndex' = found.headerRowIndex
              /\ header' = found.header
              /\ colIndex' = ci
              /\ timeIdx' = tIdx
              /\ warnings' = IF tIdx < 0 THEN <<TimeWarning>> ELSE <<>>
              /\ pc' = "pitcher"
              /\ UNCHANGED exVars
  /\ UNCHANGED <<inVars, rsVars, gnVars, sheetName, time, pitcher, hitter>>

\* line 211: const pitcher = buildRole("pitcher")
BuildPitcher ==
  /\ pc = "pitcher"
  /\ \E b \in {buildRole("pitcher", table, headerRowIndex, colIndex, timeIdx, time, warnings)} :
        /\ pitcher' = b.series
        /\ time' = b.time
        /\ warnings' = b.warnings
  /\ pc' = "hitter"
  /\ UNCHANGED <<inVars, rsVars, gnVars, sheetName, table, hdVars, hitter, exVars>>

\* line 212: const hitter = buildRole("hitter")
BuildHitter ==
  /\ pc = "hitter"
  /\ \E b \in {buildRole("hitter", table, headerRowIndex, colIndex, timeIdx, time, warnings)} :
        /\ hitter' = b.series
        /\ time' = b.time
        /\ warnings' = b.warnings
  /\ pc' = "return"
  /\ UNCHANGED <<inVars, rsVars, gnVars, sheetName, table, hdVars, pitcher, exVars>>

\* lines 214-220: the final check and the ok:true result; both NeededMetrics
\* hold the same `time` array
ReturnMetrics ==
  /\ pc = "return"
  /\ IF Len(pitcher) = 0 /\ Len(hitter) = 0
     THEN Return(Failure("No needed metrics could be extracted.", warnings))
     ELSE Return([ok |-> TRUE, why |-> "", warnings |-> warnings,
                  pitcher |-> [time |-> time, series |-> pitcher],
                  hitter |-> [time |-> time, series |-> hitter]])
  /\ UNCHANGED <<inVars, rsVars, gnVars, nmVars>>

NeededNext ==
  \/ parseExcelToNeededMetrics
  \/ ReadWorkbook
  \/ SheetToJson
  \/ BuildPitcher
  \/ BuildHitter
  \/ ReturnMetrics

SpecNeeded == NeededInit /\ [][NeededNext]_vars

(***************************************************************************)
(* The column resolver on its own: a header row and a key, then lines      *)
(* 168-174 (header row, colIndex) and getColIndexWithAliases               *)
(***************************************************************************)
ResolveInit ==
  /\ pc = "rstart"
  /\ buf = NoBuf
  /\ fpsGuess = NaN
  /\ sheetName = ""
  /\ \E row \in ResolveRows : table = <<row>>
  /\ headerRowIndex = 0
  /\ header = <<>>
  /\ colIndex = <<>>
  /\ timeIdx = -1
  /\ warnings = <<>>
  /\ time = <<>>
  /\ pitcher = <<>>
  /\ hitter = <<>>
  /\ result = Pending
  /\ err = ""
  /\ escaped = FALSE
  /\ rKey \in ResolveKeys
  /\ rIdx = -1
  /\ GenericIdle

\* lines 168-174: the header row and the Map built from it
IndexHeader ==
  /\ pc = "rstart"
  /\ \E found \in {findHeaderRowWithTime(table)} :
       /\ headerRowIndex' = found.headerRowIndex
       /\ header' = found.header
       /\ colIndex' = BuildColIndex(found.header, 1, <<>>)
  /\ pc' = "rindexed"
  /\ UNCHANGED <<inVars, sheetName, table, timeIdx, warnings, time, pitcher,
                 hitter, exVars, rsVars, gnVars>>

\* one call getColIndexWithAliases(colIndex, rKey)
Resolve ==
  /\ pc = "rindexed"
  /\ rIdx' = getColIndexWithAliases(colIndex, rKey)
  /\ pc' = "resolved"
  /\ UNCHANGED <<inVars, nmVars, exVars, rKey, gnVars>>

ResolveNext ==
  \/ IndexHeader
  \/ Resolve

SpecResolve == ResolveInit /\ [][ResolveNext]_vars

(***************************************************************************)
(* The generic path: parseExcelToDataSets and parseWorkbookArrayBuffer     *)
(***************************************************************************)
GenericInit ==
  /\ pc = "gstart"
  /\ buf = NoBuf
  /\ fpsGuess = DefaultFps
  /\ NeededIdle
  /\ ResolveIdle
  /\ GenericIdle

\* an Error with message m thrown where no try block encloses the call
Escape(m) ==
  /\ err' = m
  /\ escaped' = TRUE
  /\ pc' = "done"
  /\ UNCHANGED result

\* parseExcelToDataSets, lines 37-38: `await file.arrayBuffer()` rejects, or
\* resolves to the buffer handed on with fpsGuess
parseExcelToDataSets ==
  /\ pc = "gstart"
  /\ \/ \E m \in ErrorMessages : Escape(m) /\ UNCHANGED inVars
     \/ \E in \in GenericInputs :
          /\ buf' = in[1]
          /\ fpsGuess' = in[2]
          /\ pc' = "gread"
          /\ UNCHANGED exVars
  /\ UNCHANGED <<nmVars, rsVars, gnVars>>

\* parseWorkbookArrayBuffer, lines 55-56: read(buf) and the empty `out`
parseWorkbookArrayBuffer ==
  /\ pc = "gread"
  /\ IF buf.bad # ""
     THEN Escape(buf.bad)
     ELSE pc' = "gsheet" /\ UNCHANGED exVars
  /\ sheetIdx' = 1
  /\ out' = <<>>
  /\ UNCHANGED <<inVars, nmVars, rsVars, shVars>>

\* `continue`: nothing is kept of the sheet in hand
NextSheet ==
  /\ sheetIdx' = sheetIdx + 1
  /\ pc' = "gsheet"
  /\ UNCHANGED exVars

\* one pass of the loop body, lines 58-66: the worksheet, its grid, header
\* detection and the two `continue` checks
DetectHeader ==
  /\ pc = "gsheet"
  /\ sheetIdx <= Len(buf.sheets)
  /\ sheetName' = buf.sheets[sheetIdx][1]
  /\ cleaned' = <<>>
  /\ \E ws \in {buf.sheets[sheetIdx][2]} :
       IF ws[1] # "grid" \/ Len(ws[2]) = 0
       THEN /\ table' = <<>>
            /\ bestIdx' = 0
            /\ headers' = <<>>
            /\ dataRows' = <<>>
            /\ IF ws[1] = "corrupt"
               THEN Escape(ws[3]) /\ UNCHANGED sheetIdx
               ELSE NextSheet
       ELSE \E d \in {detectHeaderAndExtract(ws[2])} :
              /\ table' = ws[2]
              /\ bestIdx' = d.bestIdx
              /\ headers' = d.headers
              /\ dataRows' = d.dataRows
              /\ IF Len(d.headers) = 0 \/ Len(d.dataRows) = 0
                 THEN NextSheet
                 ELSE /\ pc' = "gnormalize"
                      /\ UNCHANGED <<sheetIdx, exVars>>
  /\ UNCHANGED <<inVars, hdVars, warnings, time, pitcher, hitter, rsVars, out>>

\* lines 68-72: toObjects, normalizeSheet and the store into `out`
NormalizeSheet ==
  /\ pc = "gnormalize"
  /\ \E c \in {normalizeSheet(toObjects(headers, dataRows), fpsGuess)} :
       /\ cleaned' = c
       /\ out' = IF Len(c) > 0 /\ HasMetric(c) THEN MapSet(out, sheetName, c) ELSE out
  /\ NextSheet
  /\ UNCHANGED <<inVars, nmVars, rsVars, bestIdx, headers, dataRows>>

\* line 74: return out
ReturnDataSets ==
  /\ pc = "gsheet"
  /\ sheetIdx > Len(buf.sheets)
  /\ pc' = "done"
  /\ UNCHANGED <<inVars, nmVars, exVars, rsVars, gnVars>>

GenericNext ==
  \/ parseExcelToDataSets
  \/ parseWorkbookArrayBuffer
  \/ DetectHeader
  \/ NormalizeSheet
  \/ ReturnDataSets

SpecGeneric == GenericInit /\ [][GenericNext]_vars

Init == NeededInit

Next == NeededNext

Spec == Init /\ [][Next]_vars

(***************************************************************************)
(* Properties of the needed-metrics path                                   *)
(***************************************************************************)
Range(f) == {f[j] : j \in DOMAIN f}

Returned == pc = "done"

\* the number of non-empty rows after the header row
DataRowCount ==
  Cardinality({r \in (headerRowIndex + 2)..Len(table) : Len(table[r]) > 0})

AllSeries(r) == Range(r.pitcher.series) \cup Range(r.hitter.series)

\* C1: whenever the parse returns ok:true, time and every series' values of
\* both roles have one common length, the number of non-empty rows after the
\* header row, and the two roles' time arrays are equal.
C1_AlignedLengths ==
  (Returned /\ result.ok) =>
    /\ Len(result.pitcher.time) = DataRowCount
    /\ Len(result.hitter.time) = DataRowCount
    /\ \A sr \in AllSeries(result) : Len(sr.values) = DataRowCount
    /\ result.pitcher.time = result.hitter.time

\* an ok:true result over a title row, a header row, an empty row and one
\* data row
C1_Witness ==
  /\ Returned /\ result.ok
  /\ headerRowIndex = 1
  /\ Len(table) = 4
  /\ \E r \in 3..4 : Len(table[r]) = 0
  /\ Len(result.pitcher.time) = 1

HasLabel(k) == \E j \in 1..Len(header) : header[j] = StrC(k)

\* C2: when the header row holds the variant
\* "/Calc/Elbow/Dominant/Flexion/Extension/Velocity_x" and not the canonical
\* spelling, the pitcher series "Elbow Flexion/Extension Velocity, dominant"
\* holds the parsed numbers of that column and no "Missing column in sheet"
\* warning is emitted for it.
C2_TypoVariantResolves ==
  (Returned /\ result.ok /\ HasLabel(KElbowTypo) /\ ~HasLabel(KElbowCanon)) =>
    /\ \E j \in 1..Len(header) :
         /\ header[j] = StrC(KElbowTypo)
         /\ \A sr \in Range(result.pitcher.series) :
              sr.label = "Elbow Flexion/Extension Velocity, dominant" =>
                sr.values = [r \in 1..DataRowCount |->
                               LET v == toNumber(At(ProcessedRows(table, headerRowIndex)[r], j))
                               IN IF IsFinite(v) THEN v ELSE NaN]
    /\ MissingWarning(KElbowCanon) \notin Range(result.warnings)

\* no header label is "Time" once whitespace is removed
TimeUnresolvable ==
  \A j \in 1..Len(header) : IsStr(header[j]) => StripWs(header[j][3]) # "Time"

\* C4: when the Time column cannot be resolved in a sheet that has rows, the
\* result is ok:true, time is NaN for each processed data row and the
\* warnings hold "Could not find 'Time' column; times will be NaN.".
C4_MissingTimeIsNaN ==
  (Returned /\ err = "" /\ Len(table) > 0 /\ TimeUnresolvable) =>
    /\ result.ok
    /\ Len(result.pitcher.time) = DataRowCount
    /\ \A i \in 1..Len(result.pitcher.time) : result.pitcher.time[i] = NaN
    /\ \A i \in 1..Len(result.hitter.time) : result.hitter.time[i] = NaN
    /\ "Could not find 'Time' column; times will be NaN." \in Range(result.warnings)

\* a sheet without a Time label and with two data rows, one starting with a number
C4_Witness ==
  /\ Returned /\ err = "" /\ Len(table) > 0 /\ TimeUnresolvable
  /\ Len(result.pitcher.time) = 2
  /\ \E r \in (headerRowIndex + 2)..Len(table) :
       Len(table[r]) > 0 /\ IsNum(table[r][1])

\* the sheet wb.Sheets[sheetName] of the selected name
SelectedWs == SheetOf(buf, sheetName)

\* the workbook was read and has no sheet, or its selected sheet is absent
\* or has zero rows
StructuralFailure ==
  /\ buf.bad = ""
  /\ \/ Len(buf.sheets) = 0
     \/ SelectedWs[1] = "missing"
     \/ SelectedWs[1] = "grid" /\ Len(SelectedWs[2]) = 0

\* C5: no exception escapes and every call returns a result; a workbook
\* without sheets, an absent selected sheet or a selected sheet with zero
\* rows gives ok:false with a non-empty reason and no warnings; a thrown
\* error gives ok:false with why equal to its message and no warnings.
C5_NeverThrows ==
  /\ ~escaped
  /\ Returned => (result.ok \/ result.why # "")
  /\ (Returned /\ err = "" /\ StructuralFailure) =>
       (~result.ok /\ result.why # "" /\ result.warnings = <<>>)
  /\ (Returned /\ err # "") =>
       (~result.ok /\ result.why = err /\ result.warnings = <<>>)

\* sheet_to_json threw on the selected sheet
C5_Witness ==
  /\ Returned /\ err # ""
  /\ buf.bad = "" /\ sheetName # "" /\ SelectedWs[1] = "corrupt"

(***************************************************************************)
(* Properties of the column resolver                                       *)
(***************************************************************************)
Greatest(S) == CHOOSE i \in S : \A j \in S : j <= i

Resolved == pc = "resolved"

\* the columns (1-based) of the header row that hold a string
StringCols == {j \in 1..Len(header) : IsStr(header[j])}

ColsLabelled(l) == {j \in StringCols : Trim(header[j][3]) = l}

\* the columns whose label equals the key once whitespace is removed
LooseCols(key) == {j \in StringCols : StripWs(Trim(header[j][3])) = StripWs(key)}

AliasOf(key) == IF MapHas(HEADER_ALIASES, key) THEN MapGet(HEADER_ALIASES, key) ELSE ""

AliasCols(key) == IF AliasOf(key) = "" THEN {} ELSE ColsLabelled(AliasOf(key))

\* C3 as stated: the key verbatim gives the index of a header equal to it;
\* otherwise the alias of the key gives the index of a header equal to the
\* alias; otherwise the result is the index of the first header in column
\* order whose whitespace-stripped form equals the stripped key; -1 exactly
\* when no tier matches.
C3_FirstHeaderInColumnOrder ==
  Resolved =>
    IF ColsLabelled(rKey) # {} THEN rIdx + 1 \in ColsLabelled(rKey)
    ELSE IF AliasCols(rKey) # {} THEN rIdx + 1 \in AliasCols(rKey)
    ELSE IF LooseCols(rKey) # {} THEN rIdx + 1 = Least(LooseCols(rKey))
    ELSE rIdx = -1

\* C3, amended: a label stands for the last column that carries it.  The key
\* verbatim gives the last column labelled with it; otherwise its alias gives
\* the last column labelled with the alias; otherwise the label of the first
\* column whose whitespace-stripped form equals the stripped key is taken
\* and the result is the last column carrying that label; -1 exactly when no
\* tier matches.
C3_LastColumnOfLabel ==
  Resolved =>
    IF ColsLabelled(rKey) # {} THEN rIdx + 1 = Greatest(ColsLabelled(rKey))
    ELSE IF AliasCols(rKey) # {} THEN rIdx + 1 = Greatest(AliasCols(rKey))
    ELSE IF LooseCols(rKey) # {}
    THEN rIdx + 1 = Greatest(ColsLabelled(Trim(header[Least(LooseCols(rKey))][3])))
    ELSE rIdx = -1

\* the third tier answered with a column that is not the first loose match:
\* the label of the first match is repeated further right
C3_Witness ==
  /\ Resolved
  /\ ColsLabelled(rKey) = {} /\ AliasCols(rKey) = {}
  /\ LooseCols(rKey) # {}
  /\ rIdx + 1 > Least(LooseCols(rKey))

(***************************************************************************)
(* Properties of the generic path                                          *)
(***************************************************************************)
\* detectHeaderAndExtract has run on `table`
Detected == table # <<>>

\* the 0-based rows the detector may examine
Candidates == 0..(Min(Len(table), ScanLimit) - 1)

\* C6: the detector selects, among the first min(20, rows) rows, a row of
\* maximum score, and the lowest index among the rows of that score.
C6_SelectsFirstMaximum ==
  Detected =>
    /\ bestIdx \in Candidates
    /\ \A i \in Candidates :
         /\ RowScore(table[bestIdx + 1]) >= RowScore(table[i + 1])
         /\ RowScore(table[bestIdx + 1]) = RowScore(table[i + 1]) => bestIdx <= i

\* normalizeSheet has run on the sheet in hand
Normalized == cleaned # <<>>

\* the objectified rows normalizeSheet was given
RawRows == toObjects(headers, dataRows)

\* num(cell) of every row's cell under key k
ParsedColumn(k) == [r \in 1..Len(RawRows.rows) |-> toNumber(RawRows.rows[r][k])]

\* the t of every output row
Times == [r \in 1..Len(cleaned) |-> cleaned[r]["t"]]

\* the mean absolute successive difference of the finite values of a column
\* exceeds the bound
MeanAbsDiffExceeds(column, bound) ==
  LET vals == SelectSeq(column, IsFinite)
  IN /\ Len(vals) >= 2
     /\ NumGt(NumDiv(SumAbsDiff(vals, 2), Int2Num(Len(vals) - 1)), Int2Num(bound))

\* C7: with a time key, each row's t is the parsed time value divided by 1000
\* when a millisecond-marker key is present or when the row's parsed value
\* exceeds 50 and the mean absolute successive difference of the column's
\* finite values exceeds 10, and the parsed value otherwise; a time column
\* [0, 120, 240, 360] gives [0, 0.12, 0.24, 0.36].
C7_MillisecondHeuristic ==
  (Normalized /\ TimeKeyOf(RawRows.keys) # "") =>
    /\ \A r \in 1..Len(cleaned) :
         LET n == ParsedColumn(TimeKeyOf(RawRows.keys))[r]
         IN cleaned[r]["t"] =
              IF \/ MsKeyOf(RawRows.keys) # ""
                 \/ /\ IsFinite(n)
                    /\ NumGt(n, Int2Num(50))
                    /\ MeanAbsDiffExceeds(ParsedColumn(TimeKeyOf(RawRows.keys)), 10)
              THEN NumDiv(n, Int2Num(1000))
              ELSE n
    /\ table = ExampleTimeGrid =>
         Times = <<Int2Num(0), Rat(12, 100), Rat(24, 100), Rat(36, 100)>>

\* a timestamp-like key, no t/time key and no frame key
TimestampOnly ==
  /\ TimestampKeyOf(RawRows.keys) # ""
  /\ \A j \in 1..Len(RawRows.keys) : ~IsTimeKey(RawRows.keys[j])
  /\ FrameKeyOf(RawRows.keys) = ""

\* the timestamp of every row, as a number or a parsed date string
Timestamps ==
  [r \in 1..Len(RawRows.rows) |->
     NumberOrDate(RawRows.rows[r][TimestampKeyOf(RawRows.keys)])]

\* C8: with a timestamp-like column and neither a t/time nor a frame column,
\* each row's t is its timestamp minus the first valid timestamp of the
\* column, divided by 1000, so the row of the first valid timestamp has t = 0.
C8_TimestampRelativeToFirst ==
  (Normalized /\ TimestampOnly) =>
    LET valid == {r \in 1..Len(cleaned) : IsFinite(Timestamps[r])}
    IN \A r \in 1..Len(cleaned) :
         cleaned[r]["t"] =
           IF r \in valid
           THEN NumDiv(NumSub(Timestamps[r], Timestamps[Least(valid)]), Int2Num(1000))
           ELSE NaN

\* a frame key, no t/time key and no timestamp key
FrameOnly ==
  /\ TimeKeyOf(RawRows.keys) = ""
  /\ FrameKeyOf(RawRows.keys) # ""

\* C9: with a frame key and neither a t/time nor a timestamp key, each row's
\* t is its frame number divided by fpsGuess, NaN when the frame cell has no
\* finite parse; a fpsGuess that is 0 or not finite counts as 120; frames
\* [0,1,2,3] at 120 give [0, 1/120, 2/120, 3/120].
C9_FrameOverFps ==
  (Normalized /\ FrameOnly) =>
    /\ \A r \in 1..Len(cleaned) :
         LET f == ParsedColumn(FrameKeyOf(RawRows.keys))[r]
             fps == IF fpsGuess = Int2Num(0) \/ ~IsFinite(fpsGuess)
                    THEN Int2Num(120) ELSE fpsGuess
         IN cleaned[r]["t"] = IF IsFinite(f) THEN NumDiv(f, fps) ELSE NaN
    /\ (table = ExampleFrameGrid /\ fpsGuess = Int2Num(120)) =>
         Times = <<Int2Num(0), Rat(1, 120), Rat(2, 120), Rat(3, 120)>>

\* the frames [0,1,2,3] normalised at 120 frames per second
C9_Witness ==
  /\ Normalized /\ FrameOnly
  /\ table = ExampleFrameGrid /\ fpsGuess = Int2Num(120)
  /\ cleaned[4]["t"] = Rat(1, 40)

\* the keys normalizeSheet consumes instead of copying
ConsumedKeys ==
  {TimeKeyOf(RawRows.keys), MsKeyOf(RawRows.keys), FrameKeyOf(RawRows.keys)} \ {""}

\* C10: every Row has a t key; every other key of the sheet that is not
\* consumed is in the row, with the cell's parsed number, exactly when that
\* number is finite; a consumed key is in no row and no NaN is stored under
\* a key other than t.
C10_RowKeys ==
  Normalized =>
    \A r \in 1..Len(cleaned) :
      /\ "t" \in DOMAIN cleaned[r]
      /\ DOMAIN cleaned[r] \subseteq Range(RawRows.keys) \cup {"t"}
      /\ \A k \in Range(RawRows.keys) \ (ConsumedKeys \cup {"t"}) :
           /\ k \in DOMAIN cleaned[r] <=> IsFinite(ParsedColumn(k)[r])
           /\ k \in DOMAIN cleaned[r] => cleaned[r][k] = ParsedColumn(k)[r]
      /\ \A k \in ConsumedKeys \ {"t"} : k \notin DOMAIN cleaned[r]
      /\ \A k \in DOMAIN cleaned[r] \ {"t"} : IsFinite(cleaned[r][k])

\* a sheet with a time key whose column v is kept in one row and dropped
\* from another whose cell has no finite parse
C10_Witness ==
  /\ Normalized
  /\ "Time" \in ConsumedKeys
  /\ \E r1, r2 \in 1..Len(cleaned) :
       /\ "v" \in DOMAIN cleaned[r1]
       /\ "v" \notin DOMAIN cleaned[r2]
       /\ ~IsNullish(RawRows.rows[r2]["v"])

\* parseWorkbookArrayBuffer returned
DataSetsReturned == pc = "done" /\ ~escaped

\* the worksheet is there and its grid has a row
Readable(ws) == ws[1] = "grid" /\ Len(ws[2]) > 0

\* the Row[] of a readable worksheet
CleanedOf(ws) ==
  LET d == detectHeaderAndExtract(ws[2])
  IN normalizeSheet(toObjects(d.headers, d.dataRows), fpsGuess)

\* a readable worksheet with a header row and data rows in which no cell
\* outside the time column parses to a finite number
OnlyTimeIsNumeric(ws) ==
  LET d == detectHeaderAndExtract(ws[2])
      raw == toObjects(d.headers, d.dataRows)
  IN /\ Len(d.headers) > 0 /\ Len(d.dataRows) > 0
     /\ \A r \in 1..Len(raw.rows) : \A k \in Range(raw.keys) \ {TimeKeyOf(raw.keys)} :
          ~IsFinite(toNumber(raw.rows[r][k]))

\* C11: the output has an entry for a sheet exactly when the sheet is
\* readable, has a non-empty header and a data row after it, and one of its
\* cleaned rows has a key other than t; the entry is the sheet's cleaned rows;
\* a sheet with no finite cell outside its time column has no entry.
C11_EntryIffMetric ==
  DataSetsReturned =>
    \A j \in 1..Len(buf.sheets) :
      LET name == buf.sheets[j][1]
          ws == buf.sheets[j][2]
          d == detectHeaderAndExtract(ws[2])
      IN /\ MapHas(out, name) <=>
              /\ Readable(ws)
              /\ Len(d.headers) > 0 /\ Len(d.dataRows) > 0
              /\ \E r \in 1..Len(CleanedOf(ws)) : DOMAIN CleanedOf(ws)[r] # {"t"}
         /\ MapHas(out, name) => MapGet(out, name) = CleanedOf(ws)
         /\ (Readable(ws) /\ OnlyTimeIsNumeric(ws)) => ~MapHas(out, name)
         /\ Len(out) <= Len(buf.sheets)

\* a workbook of two sheets returned: a sheet holding only a Time column has no
\* entry, the sheet with a second numeric column has one
C11_Witness ==
  /\ DataSetsReturned
  /\ Len(buf.sheets) = 2 /\ Len(out) = 1
  /\ \E j \in 1..2 :
       /\ Readable(buf.sheets[j][2]) /\ OnlyTimeIsNumeric(buf.sheets[j][2])
       /\ ~MapHas(out, buf.sheets[j][1])

(***************************************************************************)
(* Properties of the needed-metrics header row                             *)
(***************************************************************************)
\* findHeaderRowWithTime has run on `table`
HeaderFound == table # <<>>

\* the 0-based rows among the first min(20, rows) that hold a string cell
\* equal to "time" once trimmed and case-folded
TimeRows ==
  {i \in 0..(Min(Len(table), ScanLimit) - 1) :
     \E j \in 1..Len(table[i + 1]) :
       IsStr(table[i + 1][j]) /\ Lower(Trim(table[i + 1][j][3])) = "time"}

\* C12: the needed-metrics header detector returns the lowest row among the
\* first min(20, rows) rows that holds a string cell equal to "time"
\* case-insensitively after trimming, and row 0 when there is none among them;
\* the header is that row with its string cells trimmed.
C12_FirstTimeRow ==
  HeaderFound =>
    /\ headerRowIndex = IF TimeRows = {} THEN 0 ELSE Least(TimeRows)
    /\ Len(header) = Len(table[headerRowIndex + 1])
    /\ \A j \in 1..Len(header) :
         header[j] = IF IsStr(table[headerRowIndex + 1][j])
                     THEN StrC(Trim(table[headerRowIndex + 1][j][3]))
                     ELSE table[headerRowIndex + 1][j]

\* the lone TIME cell of row 0 is the header row although the scoring of the
\* generic detector prefers row 1
C12_Witness ==
  /\ HeaderFound
  /\ headerRowIndex = 0 /\ TimeRows = {0}
  /\ header = <<StrC("TIME")>>
  /\ BestRow(table) = 1

\* C13: the header labels the generic detector returns after cleanup hold no
\* two equal non-empty labels.
C13_UniqueHeaders ==
  Detected =>
    \A i, j \in 1..Len(headers) :
      (i < j /\ headers[i] # "") => headers[i] # headers[j]

\* the columns (1-based) of the header row whose label is "time" case-folded
TimeLabelCols ==
  {j \in 1..Len(header) : IsStr(header[j]) /\ Lower(Trim(header[j][3])) = "time"}

\* C14: whenever the header row is selected because one of its cells equals
\* "time" case-insensitively after trimming, the Time column resolves to the
\* column of such a cell, time holds that column's parsed values and the
\* warning "Could not find 'Time' column" is not emitted.
C14_TimeResolvesInAnyCase ==
  (HeaderFound /\ TimeRows # {}) =>
    /\ timeIdx + 1 \in TimeLabelCols
    /\ TimeWarning \notin Range(warnings)
    /\ (Returned /\ result.ok) =>
         result.pitcher.time =
           [r \in 1..DataRowCount |->
              LET t == toNumber(At(ProcessedRows(table, headerRowIndex)[r], timeIdx + 1))
              IN IF IsFinite(t) THEN t ELSE NaN]

\* the rows whose time cell parses to a finite number
FiniteTimeRows ==
  {r \in 1..Len(cleaned) : IsFinite(ParsedColumn(TimeKeyOf(RawRows.keys))[r])}

\* C15: with a time key, either every row's finite time value is divided by
\* 1000 or none is, so a raw time column that is non-decreasing row by row
\* gives a non-decreasing t.
C15_UniformMillisecondDecision ==
  (Normalized /\ TimeKeyOf(RawRows.keys) # "") =>
    LET n == ParsedColumn(TimeKeyOf(RawRows.keys))
    IN /\ \/ \A r \in FiniteTimeRows : cleaned[r]["t"] = NumDiv(n[r], Int2Num(1000))
          \/ \A r \in FiniteTimeRows : cleaned[r]["t"] = n[r]
       /\ (\A r1, r2 \in FiniteTimeRows : r1 < r2 => ~NumGt(n[r1], n[r2])) =>
            (\A r1, r2 \in FiniteTimeRows :
               r1 < r2 => ~NumGt(cleaned[r1]["t"], cleaned[r2]["t"]))

(***************************************************************************)
(* Properties of the series of the needed-metrics path                     *)
(***************************************************************************)
Roles == {"pitcher", "hitter"}

\* the selected sheet was read and has a row
SelectedSheetHasRows ==
  /\ buf.bad = "" /\ sheetName # ""
  /\ SelectedWs[1] = "grid" /\ Len(SelectedWs[2]) > 0

\* the whitelist entries <<role, j>> whose key resolves to no column
Unresolved ==
  {e \in UNION {{<<role, j>> : j \in 1..Len(NEEDED_MAP(role))} : role \in Roles} :
     getColIndexWithAliases(colIndex, NEEDED_MAP(e[1])[e[2]][2]) < 0}

SeriesOf(role) == IF role = "pitcher" THEN result.pitcher.series ELSE result.hitter.series

\* C16: when the selected sheet has a row the result is ok:true with one
\* Series per whitelist entry of each role, in whitelist order with the
\* entry's label and key; the values of an unresolved series are all NaN and
\* "Missing column in sheet: <key>" is in the warnings once per unresolved
\* series of each role; "No needed metrics could be extracted." is never the
\* failure reason.
C16_OneSeriesPerEntry ==
  /\ Returned => result.why # "No needed metrics could be extracted."
  /\ (Returned /\ SelectedSheetHasRows) =>
       /\ result.ok
       /\ \A role \in Roles :
            /\ Len(SeriesOf(role)) = Len(NEEDED_MAP(role))
            /\ \A j \in 1..Len(NEEDED_MAP(role)) :
                 /\ SeriesOf(role)[j].label = NEEDED_MAP(role)[j][1]
                 /\ SeriesOf(role)[j].key = NEEDED_MAP(role)[j][2]
                 /\ <<role, j>> \in Unresolved =>
                      \A r \in 1..Len(SeriesOf(role)[j].values) :
                        SeriesOf(role)[j].values[r] = NaN
       /\ \A e \in Unresolved :
            Cardinality({w \in 1..Len(result.warnings) :
                           result.warnings[w] =
                             "Missing column in sheet: " \o NEEDED_MAP(e[1])[e[2]][2]})
              = Cardinality({u \in Unresolved :
                               NEEDED_MAP(u[1])[u[2]][2] = NEEDED_MAP(e[1])[e[2]][2]})
       /\ Len(result.warnings) =
            Cardinality(Unresolved) + (IF timeIdx < 0 THEN 1 ELSE 0)

\* a sheet with two data rows in which neither Time nor any whitelisted column
\* resolves: the Time warning and one warning per series of both roles
C16_Witness ==
  /\ Returned /\ SelectedSheetHasRows
  /\ result.ok
  /\ timeIdx < 0
  /\ Cardinality(Unresolved) = Len(NEEDED_MAP("pitcher")) + Len(NEEDED_MAP("hitter"))
  /\ Len(result.pitcher.series[1].values) = 2
  /\ Len(result.warnings) = Cardinality(Unresolved) + 1

=============================================================================
